---- MODULE Spec2Model ----
(***************************************************************************)
(* Verification model of the DeepSeek request client of the editor         *)
(* assistant: DeepSeekClient (services/deepseekClient.ts) together with    *)
(* the ConfigurationManager it reads its settings from.                    *)
(*                                                                         *)
(* Time.  Date.now() is only ever used to build the requestId of a         *)
(* makeRequest frame, and a requestId is only ever compared for equality   *)
(* with the keys of retryCount.  The model therefore keeps every timestamp *)
(* as its distance to the current clock reading: a frame started in the    *)
(* current tick has requestId 0, Tick moves every held timestamp one step  *)
(* into the past.  One tick stands for 1000 ms, the unit of the backoff    *)
(* delay.  A retryCount entry whose timestamp is in the past and that no   *)
(* frame in flight holds can never be read, written or deleted again; such *)
(* entries are only counted (stale).                                       *)
(*                                                                         *)
(* The module also holds ConfigurationManager.validateConfiguration        *)
(* applied to the settings a user can enter (ValidatorSpec), the           *)
(* ErrorHandler of utils/logger.ts deciding on one caught value            *)
(* (HandlingSpec) and the ErrorHandler keeping its errorCount table under  *)
(* a clock of its own (ThrottleSpec).                                      *)
(***************************************************************************)
EXTENDS Integers, Sequences, FiniteSets, TLC

(***************************************************************************)
(* Bounds of the model.                                                    *)
(***************************************************************************)
\* logical calls that may be started under Spec
NumCalls == 1
\* logical calls that may be started under BurstSpec (within one clock reading)
NumBurstCalls == 4
\* ticks an attempt may stay in flight (stands for DEFAULT_TIMEOUT)
MaxFlight == 1
\* the attempt counter of a call stops counting here
MaxAttempts == 5
\* the counter of unreachable retryCount entries stops counting here
MaxStale == 1

\* clock ticks in the five minutes after which an errorCount entry is deleted
TicksPerLifetime == 5
\* cap on the count the ErrorHandler keeps for one key
MaxOccurrences == 6
\* cap on the deletions pending for one key
MaxTimers == 6

\* lines in the longest content the API answers with
MaxLines == 7

Min(a, b) == IF a < b THEN a ELSE b

Max(a, b) == IF a < b THEN b ELSE a

Calls == 1..NumCalls

BurstCalls == 1..NumBurstCalls

AllCalls == 1..Max(NumCalls, NumBurstCalls)

(***************************************************************************)
(* Program constants.                                                      *)
(***************************************************************************)
MAX_RETRIES == 3

maxErrorsPerType == 5

\* the delay of the setTimeout in ErrorHandler.handleError
ResetAfterMs == 5 * 60 * 1000

(***************************************************************************)
(* Strings are sequences of characters.                                    *)
(***************************************************************************)
Rep(ch, n) == [i \in 1..n |-> ch]

Whitespace == {" ", "\t", "\n"}

RECURSIVE trimStart(_)
trimStart(s) ==
    IF s # <<>> /\ Head(s) \in Whitespace THEN trimStart(Tail(s)) ELSE s

RECURSIVE trimEnd(_)
trimEnd(s) ==
    IF s # <<>> /\ s[Len(s)] \in Whitespace
    THEN trimEnd(SubSeq(s, 1, Len(s) - 1)) ELSE s

trim(s) == trimEnd(trimStart(s))

startsWith(s, p) == Len(s) >= Len(p) /\ SubSeq(s, 1, Len(p)) = p

(***************************************************************************)
(* ConfigurationManager.                                                   *)
(* temperature is kept in tenths (0.1 is 1, 2 is 20).                      *)
(***************************************************************************)
DefaultConfiguration ==
    [apiKey |-> <<>>, model |-> "deepseek-coder", maxTokens |-> 2048,
     temperature |-> 1]

isValidApiKeyFormat(apiKey) ==
    Len(apiKey) >= 20 /\ startsWith(apiKey, <<"s", "k", "-">>)

Issue(f, m, s) == [field |-> f, message |-> m, severity |-> s]

\* a blank key is required only when it is empty: no trim
apiKeyIssuesNoTrim(config) ==
    IF config.apiKey = <<>>
    THEN << Issue("apiKey", "API Key is required", "error") >>
    ELSE IF ~isValidApiKeyFormat(config.apiKey)
         THEN << Issue("apiKey", "API Key format appears invalid", "warning") >>
         ELSE << >>

apiKeyIssues(config) ==
    IF config.apiKey = <<>> \/ trim(config.apiKey) = <<>>
    THEN << Issue("apiKey", "API Key is required", "error") >>
    ELSE IF ~isValidApiKeyFormat(config.apiKey)
         THEN << Issue("apiKey", "API Key format appears invalid", "warning") >>
         ELSE << >>

modelIssues(config) ==
    IF config.model \notin {"deepseek-coder", "deepseek-chat"}
    THEN << Issue("model", "Invalid model selected", "error") >>
    ELSE << >>

rangeIssues(config) ==
    IF config.maxTokens < 100 \/ config.maxTokens > 8192
    THEN << Issue("maxTokens", "Max tokens must be between 100 and 8192", "error") >>
    ELSE << >>

temperatureIssues(config) ==
    IF config.temperature < 0 \/ config.temperature > 20
    THEN << Issue("temperature", "Temperature must be between 0 and 2", "error") >>
    ELSE << >>

\* the performance warning from 4096 on, not above it
performanceIssuesFrom4096(config) ==
    IF config.maxTokens >= 4096
    THEN << Issue("maxTokens", "High token count may impact performance", "warning") >>
    ELSE << >>

performanceIssues(config) ==
    IF config.maxTokens > 4096
    THEN << Issue("maxTokens", "High token count may impact performance", "warning") >>
    ELSE << >>

\* the rules as one else-if chain: the first violated rule ends the validation
collectIssuesFirstOnly(config) ==
    IF apiKeyIssues(config) # << >> THEN apiKeyIssues(config)
    ELSE IF modelIssues(config) # << >> THEN modelIssues(config)
    ELSE IF rangeIssues(config) # << >> THEN rangeIssues(config)
    ELSE IF temperatureIssues(config) # << >> THEN temperatureIssues(config)
    ELSE performanceIssues(config)

\* the errors array before it is split: the rules push in this order
collectIssues(config) ==
    apiKeyIssues(config) \o modelIssues(config) \o rangeIssues(config)
        \o temperatureIssues(config) \o performanceIssues(config)

IsError(e) == e.severity = "error"

IsWarning(e) == e.severity = "warning"

\* isValid asks for an empty array, whatever the severities in it
validateConfigurationAnyIssue(config) ==
    LET errors == collectIssues(config)
    IN  [isValid |-> errors = << >>,
         errors |-> SelectSeq(errors, IsError),
         warnings |-> SelectSeq(errors, IsWarning)]

validateConfiguration(config) ==
    LET errors == collectIssues(config)
    IN  [isValid |-> ~(\E i \in 1..Len(errors) : IsError(errors[i])),
         errors |-> SelectSeq(errors, IsError),
         warnings |-> SelectSeq(errors, IsWarning)]

(***************************************************************************)
(* Settings the editor may hand to the ConfigurationManager.              *)
(***************************************************************************)
KeyA == <<"s", "k", "-">> \o Rep("a", 17)

Configurations ==
    { DefaultConfiguration, [DefaultConfiguration EXCEPT !.apiKey = KeyA] }

(***************************************************************************)
(* Failures of one network attempt, as axios raises them.                  *)
(* response is the HTTP status, 0 when there is no response.               *)
(***************************************************************************)
NoResponse == 0

\* a message is the sequence of its words: includes looks for one word,
\* substring counts words
includes(message, word) == \E i \in 1..Len(message) : message[i] = word

\* data is response.data.error.message, empty when the body carries none
HttpFailure(status) ==
    [response |-> status, data |-> << >>, request |-> TRUE,
     code |-> "ERR_BAD_RESPONSE",
     message |-> <<"Request", "failed", "with", "status", "code", ToString(status)>>]

ConnectionRefused ==
    [response |-> NoResponse, data |-> << >>, request |-> TRUE,
     code |-> "ECONNREFUSED",
     message |-> <<"connect", "ECONNREFUSED">>]

SetupFailure ==
    [response |-> NoResponse, data |-> << >>, request |-> FALSE,
     code |-> "ERR_BAD_OPTION",
     message |-> <<"options", "must", "be", "an", "object">>]

Failures ==
    { HttpFailure(401), HttpFailure(404), HttpFailure(429), HttpFailure(503),
      ConnectionRefused, SetupFailure }

NoError ==
    [response |-> NoResponse, data |-> << >>, request |-> FALSE, code |-> "",
     message |-> << >>]

(***************************************************************************)
(* DeepSeekClient.handleApiError: the response interceptor replaces every  *)
(* failure by a fresh Error that carries a message and nothing else.       *)
(***************************************************************************)
NewError(message) ==
    [response |-> NoResponse, data |-> << >>, request |-> FALSE, code |-> "",
     message |-> message]

handleApiError(error) ==
    IF error.response # NoResponse
    THEN CASE error.response = 401 ->
                NewError(<<"Invalid", "API", "key.", "Please", "check", "your",
                           "configuration.">>)
           [] error.response = 429 ->
                NewError(<<"Rate", "limit", "exceeded.", "Please", "try", "again",
                           "later.">>)
           [] error.response = 500 ->
                NewError(<<"DeepSeek", "API", "server", "error.", "Please", "try",
                           "again", "later.">>)
           [] OTHER ->
                NewError(<<"API", "Error:">> \o
                         (IF error.data # << >> THEN error.data
                                                ELSE <<"Unknown", "error">>))
    ELSE IF error.request
         THEN NewError(<<"Network", "error.", "Please", "check", "your",
                         "internet", "connection.">>)
         ELSE NewError(<<"Request", "error:">> \o error.message)

(***************************************************************************)
(* ErrorHandler.isNetworkError, isAuthenticationError, isRateLimitError    *)
(***************************************************************************)
isNetworkError(error) ==
    /\ error.response = NoResponse
    /\ \/ error.code = "ECONNREFUSED"
       \/ error.code = "ENOTFOUND"
       \/ error.code = "ENETUNREACH"
       \/ includes(error.message, "network")

isAuthenticationError(error) == error.response = 401 \/ error.response = 403

isRateLimitError(error) == error.response = 429

(***************************************************************************)
(* DeepSeekClient.shouldRetry                                              *)
(***************************************************************************)
shouldRetry(error) ==
    IF error.response = NoResponse
    THEN TRUE
    ELSE error.response >= 500 \/ error.response = 429

(***************************************************************************)
(* The values a catch block can hand to the ErrorHandler (error: any):     *)
(* a string, an Error instance (axios failures are Error instances), a     *)
(* plain object, null or undefined.  fields holds the properties read by   *)
(* the handler; an absent property is the empty value of its kind.         *)
(***************************************************************************)
JsString(s) == [type |-> "string", text |-> s, fields |-> NoError]

JsError(f) == [type |-> "Error", text |-> << >>, fields |-> f]

JsObject(f) == [type |-> "object", text |-> << >>, fields |-> f]

JsNull == [type |-> "null", text |-> << >>, fields |-> NoError]

JsUndefined == [type |-> "undefined", text |-> << >>, fields |-> NoError]

\* reading a property of null or undefined raises a TypeError
Nullish(value) == value.type \in {"null", "undefined"}

(***************************************************************************)
(* ErrorHandler.handleApiError: the handler it passes the failure to, or   *)
(* the TypeError raised by the first property read of isNetworkError.      *)
(***************************************************************************)
apiErrorHandler(error) ==
    IF Nullish(error) THEN "TypeError"
    ELSE IF isNetworkError(error.fields) THEN "handleNetworkError"
    ELSE IF isAuthenticationError(error.fields) THEN "handleAuthenticationError"
    ELSE IF isRateLimitError(error.fields) THEN "handleRateLimitError"
    ELSE "handleError"

(***************************************************************************)
(* ErrorHandler.getErrorMessage and getErrorKey.  substring counts the     *)
(* units of a message.                                                     *)
(***************************************************************************)
FallbackMessage == <<"An", "unexpected", "error", "occurred">>

getErrorMessage(error) ==
    IF error.type = "string" THEN error.text
    ELSE IF error.type = "Error" THEN error.fields.message
    ELSE IF ~Nullish(error) /\ error.fields.data # << >> THEN error.fields.data
    ELSE IF ~Nullish(error) /\ error.fields.message # << >> THEN error.fields.message
    ELSE FallbackMessage

substring(s, from, to) == SubSeq(s, from + 1, Min(to, Len(s)))

getErrorKey(error, context) ==
    << context, ":" >> \o substring(getErrorMessage(error), 0, 50)

(***************************************************************************)
(* Map<string, number>                                                     *)
(***************************************************************************)
MapGet(m, k) == IF k \in DOMAIN m THEN m[k] ELSE 0

MapSet(m, k, v) == [x \in (DOMAIN m) \cup {k} |-> IF x = k THEN v ELSE m[x]]

MapDelete(m, k) == [x \in (DOMAIN m) \ {k} |-> m[x]]

EmptyMap == [x \in {} |-> 0]

VARIABLES
    configuration,   \* ConfigurationManager.configuration (the snapshot it holds)
    authorization,   \* the key in httpClient.defaults.headers['Authorization']
    retryCount,      \* DeepSeekClient.retryCount, keyed by the age of the timestamp
    stale,           \* number of retryCount entries no frame can reach any more
    pc,              \* per call: Idle, Attempting, Retrying, Succeeded, Failed
    requestId,       \* per call: age of the timestamp in the requestId of its frame
    timer,           \* per call: ticks left of the setTimeout of its backoff
    delay,           \* per call: the delay (ms) of its pending backoff
    attempts,        \* per call: number of httpClient.post calls made for it
    sentKey,         \* per call: the key in the header of its request on the wire
    startKey,        \* per call in flight: the apiKey configured when it started
    lastFailure,     \* the latest failed attempt: its call, the failure as raised
    errorCount,      \* ErrorHandler.errorCount
    timers,          \* per key and minutes left: pending setTimeout deletions
    ordinal,         \* per key: occurrences handled since its record was last removed
    notified,        \* per key: notifications handleError showed since then
    age,             \* per key: minutes since its record was created
    last,            \* the occurrence handled last: key, entry point, showUser, shown
    validation,      \* the result of the last validateConfiguration() call
    caught,          \* the value a catch block hands to the ErrorHandler
    handling,        \* what the ErrorHandler and the client made of caught
    invocation,      \* one call of a public operation of the client, start to end
    activation       \* what activate() did: the prompt shown, the extension active

clientVars == << authorization, retryCount, stale, pc, requestId, timer, delay,
                 attempts, sentKey, startKey, lastFailure >>

handlerVars == << errorCount, timers, ordinal, notified, age, last >>

pureVars == << validation, caught, handling, invocation, activation >>

vars == << configuration, clientVars, handlerVars, pureVars >>

\* no key: the call has no request on the wire
NoKey == << "none" >>

(***************************************************************************)
(* The state after the constructors: the ConfigurationManager holds the    *)
(* settings found at activation (the defaults when none are set), the      *)
(* http client carries the key read by initializeHttpClient.               *)
(***************************************************************************)
ClientIdle ==
    /\ authorization = configuration.apiKey
    /\ retryCount = EmptyMap
    /\ stale = 0
    /\ pc = [c \in AllCalls |-> "Idle"]
    /\ requestId = [c \in AllCalls |-> 0]
    /\ timer = [c \in AllCalls |-> 0]
    /\ delay = [c \in AllCalls |-> 0]
    /\ attempts = [c \in AllCalls |-> 0]
    /\ sentKey = [c \in AllCalls |-> NoKey]
    /\ startKey = [c \in AllCalls |-> NoKey]
    /\ lastFailure = [call |-> 0, error |-> NoError]

\* no occurrence was handled in the latest step
NoOccurrence ==
    [key |-> << >>, handler |-> "none", showUser |-> FALSE, shown |-> FALSE]

\* the ErrorHandler after its constructor
HandlerIdle ==
    /\ errorCount = EmptyMap
    /\ timers = EmptyMap
    /\ ordinal = EmptyMap
    /\ notified = EmptyMap
    /\ age = EmptyMap
    /\ last = NoOccurrence

\* nothing validated, nothing caught
PureIdle ==
    /\ validation = << >>
    /\ caught = JsUndefined
    /\ handling = << >>
    /\ invocation = << >>
    /\ activation = << >>

Init ==
    /\ configuration \in Configurations
    /\ ClientIdle
    /\ HandlerIdle
    /\ PureIdle

(***************************************************************************)
(* ConfigurationManager.getConfiguration                                   *)
(***************************************************************************)
getConfiguration == configuration

(***************************************************************************)
(* makeRequest without the update of the Authorization header: the request *)
(* goes out with whatever the default headers hold.                        *)
(***************************************************************************)
makeRequestKeepsHeader(c) ==
    /\ requestId' = [requestId EXCEPT ![c] = 0]
    /\ authorization' = authorization
    /\ sentKey' = [sentKey EXCEPT ![c] = authorization']
    /\ attempts' = [attempts EXCEPT ![c] = Min(@ + 1, MaxAttempts)]
    /\ pc' = [pc EXCEPT ![c] = "Attempting"]
    /\ timer' = [timer EXCEPT ![c] = 0]
    /\ delay' = [delay EXCEPT ![c] = 0]

(***************************************************************************)
(* DeepSeekClient.makeRequest up to the await of httpClient.post: a new    *)
(* requestId from the clock, the current apiKey into the default headers,  *)
(* the request, with a copy of these headers, on the wire.                 *)
(***************************************************************************)
makeRequest(c) ==
    LET config == getConfiguration
    IN  /\ requestId' = [requestId EXCEPT ![c] = 0]
        /\ authorization' = config.apiKey
        /\ sentKey' = [sentKey EXCEPT ![c] = authorization']
        /\ attempts' = [attempts EXCEPT ![c] = Min(@ + 1, MaxAttempts)]
        /\ pc' = [pc EXCEPT ![c] = "Attempting"]
        /\ timer' = [timer EXCEPT ![c] = 0]
        /\ delay' = [delay EXCEPT ![c] = 0]

(***************************************************************************)
(* generateCompletion, explainCode, refactorCode, testConnection: each     *)
(* builds its request and calls makeRequest.  Calls are numbered in the    *)
(* order in which they are started.                                        *)
(***************************************************************************)
Operations == {"generateCompletion", "explainCode", "refactorCode", "testConnection"}

StartCall(c, operation) ==
    /\ pc[c] = "Idle"
    /\ \A d \in AllCalls : d < c => pc[d] # "Idle"
    /\ operation \in Operations
    /\ makeRequest(c)
    /\ startKey' = [startKey EXCEPT ![c] = getConfiguration.apiKey]
    /\ UNCHANGED << configuration, retryCount, stale, lastFailure >>
    /\ UNCHANGED << handlerVars, pureVars >>

(***************************************************************************)
(* httpClient.post resolves: makeRequest deletes the entry of its          *)
(* requestId and returns the response.                                     *)
(***************************************************************************)
AttemptSucceeds(c) ==
    /\ pc[c] = "Attempting"
    /\ retryCount' = MapDelete(retryCount, requestId[c])
    /\ pc' = [pc EXCEPT ![c] = "Succeeded"]
    /\ requestId' = [requestId EXCEPT ![c] = 0]
    /\ sentKey' = [sentKey EXCEPT ![c] = NoKey]
    /\ startKey' = [startKey EXCEPT ![c] = NoKey]
    /\ UNCHANGED << configuration, authorization, stale, timer, delay,
                    attempts, lastFailure >>
    /\ UNCHANGED << handlerVars, pureVars >>

(***************************************************************************)
(* DeepSeekClient.handleRequestError, up to the await of the backoff.      *)
(***************************************************************************)
handleRequestError(c, error) ==
    LET currentRetries == MapGet(retryCount, requestId[c])
    IN  IF shouldRetry(error) /\ currentRetries < MAX_RETRIES
        THEN /\ retryCount' = MapSet(retryCount, requestId[c], currentRetries + 1)
             /\ delay' = [delay EXCEPT ![c] = (2 ^ currentRetries) * 1000]
             /\ timer' = [timer EXCEPT ![c] = delay'[c] \div 1000]
             /\ pc' = [pc EXCEPT ![c] = "Retrying"]
             /\ startKey' = startKey
        ELSE /\ retryCount' = MapDelete(retryCount, requestId[c])
             /\ delay' = delay
             /\ timer' = timer
             /\ pc' = [pc EXCEPT ![c] = "Failed"]
             /\ startKey' = [startKey EXCEPT ![c] = NoKey]

(***************************************************************************)
(* httpClient.post rejects: the response interceptor (handleApiError)      *)
(* rethrows, the catch of makeRequest hands the error to                   *)
(* handleRequestError.                                                     *)
(***************************************************************************)
AttemptFails(c, failure) ==
    /\ pc[c] = "Attempting"
    /\ failure \in Failures
    /\ handleRequestError(c, handleApiError(failure))
    /\ lastFailure' = [call |-> c, error |-> failure]
    /\ requestId' = [requestId EXCEPT ![c] = 0]
    /\ sentKey' = [sentKey EXCEPT ![c] = NoKey]
    /\ UNCHANGED << configuration, authorization, stale, attempts >>
    /\ UNCHANGED << handlerVars, pureVars >>

\* the retry is sent without awaiting the backoff
BackoffElapsedAtOnce(c) ==
    /\ pc[c] = "Retrying"
    /\ makeRequest(c)
    /\ UNCHANGED << configuration, retryCount, stale, startKey, lastFailure >>
    /\ UNCHANGED << handlerVars, pureVars >>

(***************************************************************************)
(* The setTimeout of the backoff fires: handleRequestError calls           *)
(* makeRequest again.                                                      *)
(***************************************************************************)
BackoffElapsed(c) ==
    /\ pc[c] = "Retrying"
    /\ timer[c] = 0
    /\ makeRequest(c)
    /\ UNCHANGED << configuration, retryCount, stale, startKey, lastFailure >>
    /\ UNCHANGED << handlerVars, pureVars >>

(***************************************************************************)
(* The clock advances by one tick.  An attempt does not stay in flight     *)
(* longer than the timeout of the http client.                             *)
(***************************************************************************)
InFlight == {c \in AllCalls : pc[c] = "Attempting"}

Tick ==
    LET held == {requestId[c] : c \in InFlight}
        kept == (DOMAIN retryCount) \cap held
    IN  /\ \A c \in InFlight : requestId[c] < MaxFlight
        /\ retryCount' = [k \in {a + 1 : a \in kept} |-> retryCount[k - 1]]
        /\ stale' = Min(stale + Cardinality((DOMAIN retryCount) \ held), MaxStale)
        /\ requestId' = [c \in AllCalls |->
                            IF c \in InFlight THEN requestId[c] + 1 ELSE requestId[c]]
        /\ timer' = [c \in AllCalls |-> IF timer[c] > 0 THEN timer[c] - 1 ELSE 0]
        /\ UNCHANGED << configuration, authorization, pc, delay, attempts,
                        sentKey, startKey, lastFailure >>
        /\ UNCHANGED << handlerVars, pureVars >>

(***************************************************************************)
(* ConfigurationManager.handleConfigurationChange for an event that        *)
(* affects the aiAssistant section: the snapshot is read anew.             *)
(***************************************************************************)
handleConfigurationChange(settings) ==
    /\ settings \in Configurations
    /\ settings # configuration
    /\ configuration' = settings
    /\ UNCHANGED << authorization, retryCount, stale, pc, requestId, timer,
                    delay, attempts, sentKey, startKey, lastFailure >>
    /\ UNCHANGED << handlerVars, pureVars >>

(***************************************************************************)
(* Spec: the client with NumCalls logical calls, the clock and the         *)
(* settings changing under it.                                             *)
(***************************************************************************)
Next ==
    \/ \E c \in Calls, operation \in Operations : StartCall(c, operation)
    \/ \E c \in Calls : AttemptSucceeds(c)
    \/ \E c \in Calls, failure \in Failures : AttemptFails(c, failure)
    \/ \E c \in Calls : BackoffElapsed(c)
    \/ Tick
    \/ \E settings \in Configurations : handleConfigurationChange(settings)

Spec == Init /\ [][Next]_vars

(***************************************************************************)
(* LiveSpec: Spec with the scheduling of the event loop: the clock         *)
(* advances, a timer that is due fires, an attempt on the wire ends (the   *)
(* http client answers or times out).                                      *)
(***************************************************************************)
AttemptEnds(c) == AttemptSucceeds(c) \/ \E failure \in Failures : AttemptFails(c, failure)

LiveSpec ==
    /\ Spec
    /\ WF_vars(Tick)
    /\ \A c \in Calls : WF_vars(BackoffElapsed(c)) /\ WF_vars(AttemptEnds(c))

(***************************************************************************)
(* BurstSpec: NumBurstCalls logical calls started within one reading of    *)
(* the clock, before any backoff can elapse.                               *)
(***************************************************************************)
BurstNext ==
    \/ \E c \in BurstCalls, operation \in Operations : StartCall(c, operation)
    \/ \E c \in BurstCalls : AttemptSucceeds(c)
    \/ \E c \in BurstCalls, failure \in Failures : AttemptFails(c, failure)

BurstSpec == Init /\ [][BurstNext]_vars

(***************************************************************************)
(* ConfigurationManager.validateConfiguration as the extension calls it,   *)
(* for the settings a user can enter.                                      *)
(***************************************************************************)
ApiKeys ==
    { << >>, <<" ">>, <<" ", "\t", " ">>, <<"x">>, <<"s", "k", "-">>,
      KeyA, SubSeq(KeyA, 1, 19), Rep("a", 20), <<" ">> \o KeyA,
      KeyA \o <<"b">> }

Models == {"deepseek-coder", "deepseek-chat", "gpt-4"}

MaxTokensValues == {-1, 0, 99, 100, 2048, 4096, 4097, 8192, 8193}

Temperatures == {-1, 0, 1, 20, 21}

Settings ==
    [apiKey : ApiKeys, model : Models, maxTokens : MaxTokensValues,
     temperature : Temperatures]

Validate ==
    /\ validation = << >>
    /\ validation' = << validateConfiguration(getConfiguration) >>
    /\ UNCHANGED << configuration, clientVars, handlerVars, caught, handling,
                    invocation, activation >>

ValidatorInit ==
    /\ configuration \in Settings
    /\ ClientIdle
    /\ HandlerIdle
    /\ PureIdle

ValidatorNext == Validate

ValidatorSpec == ValidatorInit /\ [][ValidatorNext]_vars

(***************************************************************************)
(* The ErrorHandler and the client deciding on one caught value:           *)
(* handleApiError choosing the handler, the client (its interceptor, then  *)
(* shouldRetry) choosing whether to retry, getErrorMessage and getErrorKey *)
(* naming it.                                                              *)
(***************************************************************************)
Context == "completion"

WithData(f, d) == [f EXCEPT !.data = d]

\* what axios can raise, and what the client's interceptor makes of it
Raised ==
    { HttpFailure(st) : st \in {400, 401, 403, 404, 418, 429, 500, 502, 503} }
    \cup { WithData(HttpFailure(st), <<"Insufficient", "balance">>) :
             st \in {400, 401, 402, 429, 500} }
    \cup { ConnectionRefused, SetupFailure,
           [ConnectionRefused EXCEPT !.code = "ENOTFOUND",
                                     !.message = <<"getaddrinfo", "ENOTFOUND">>],
           [ConnectionRefused EXCEPT !.code = "ENETUNREACH",
                                     !.message = <<"connect", "ENETUNREACH">>],
           [ConnectionRefused EXCEPT !.code = "ECONNABORTED",
                                     !.message = <<"timeout", "of", "30000ms",
                                                   "exceeded">>],
           [ConnectionRefused EXCEPT !.code = "ERR_NETWORK",
                                     !.message = <<"Network", "Error">>],
           NewError(<<"a", "network", "problem">>),
           NewError(<<"boom">>),
           NewError(Rep("x", 60)),
           NewError(<< >>) }

CaughtValues ==
    { JsError(f) : f \in Raised \cup { handleApiError(g) : g \in Raised } }
    \cup { JsObject(f) : f \in Raised \cup {NoError} }
    \cup { JsString(<<"boom">>), JsString(<< >>), JsString(Rep("x", 60)),
           JsNull, JsUndefined }

\* DeepSeekClient: the interceptor first, shouldRetry on what it returns
clientRetries(error) == shouldRetry(handleApiError(error))

Classify ==
    /\ handling = << >>
    /\ handling' = << [by |-> "handleApiError",
                       handler |-> apiErrorHandler(caught),
                       retry |-> IF caught.type = "Error"
                                 THEN clientRetries(caught.fields) ELSE FALSE] >>
    /\ UNCHANGED << configuration, clientVars, handlerVars, validation, caught,
                    invocation, activation >>

Extract ==
    /\ handling = << >>
    /\ handling' = << [by |-> "getErrorKey",
                       message |-> getErrorMessage(caught),
                       key |-> getErrorKey(caught, Context)] >>
    /\ UNCHANGED << configuration, clientVars, handlerVars, validation, caught,
                    invocation, activation >>

HandlingInit ==
    /\ configuration = DefaultConfiguration
    /\ ClientIdle
    /\ HandlerIdle
    /\ validation = << >>
    /\ caught \in CaughtValues
    /\ handling = << >>
    /\ invocation = << >>
    /\ activation = << >>

HandlingNext ==
    \/ Classify
    \/ Extract

HandlingSpec == HandlingInit /\ [][HandlingNext]_vars

(***************************************************************************)
(* The ErrorHandler keeping its errorCount table.  The clock ticks         *)
(* TicksPerLifetime times in ResetAfterMs; timers[k][d] is the number of   *)
(* setTimeout callbacks for key k that fire in d ticks.  A callback fires  *)
(* in the tick it falls due.                                               *)
(***************************************************************************)
TickMs == ResetAfterMs \div TicksPerLifetime

Slots == 0..TicksPerLifetime

NoTimers == [d \in Slots |-> 0]

Pending(k) == IF k \in DOMAIN timers THEN timers[k] ELSE NoTimers

RECURSIVE SumUpTo(_, _)
SumUpTo(f, d) == IF d = 0 THEN f[0] ELSE f[d] + SumUpTo(f, d - 1)

PendingCount(k) == SumUpTo(Pending(k), TicksPerLifetime)

\* setTimeout(() => errorCount.delete(k), ms)
setTimeout(k, ms) == MapSet(timers, k, [Pending(k) EXCEPT ![ms \div TickMs] = @ + 1])

Occurrence(k, h, su, sh) == [key |-> k, handler |-> h, showUser |-> su, shown |-> sh]

\* the notification is allowed up to and including a count of maxErrorsPerType
handleErrorInclusive(error, context, showUser) ==
    LET errorKey == getErrorKey(error, context)
        currentCount == MapGet(errorCount, errorKey)
    IN  /\ errorCount' = MapSet(errorCount, errorKey, currentCount + 1)
        /\ last' = Occurrence(errorKey, "handleError", showUser,
                              showUser /\ currentCount <= maxErrorsPerType)
        /\ timers' = setTimeout(errorKey, ResetAfterMs)
        /\ ordinal' = MapSet(ordinal, errorKey, MapGet(ordinal, errorKey) + 1)
        /\ notified' = MapSet(notified, errorKey, MapGet(notified, errorKey) +
                  (IF showUser /\ currentCount <= maxErrorsPerType THEN 1 ELSE 0))
        /\ age' = IF errorKey \in DOMAIN errorCount THEN age
                  ELSE MapSet(age, errorKey, 0)

\* an occurrence that is not to be shown is not counted
handleErrorCountsShownOnly(error, context, showUser) ==
    LET errorKey == getErrorKey(error, context)
        currentCount == MapGet(errorCount, errorKey)
    IN  /\ errorCount' = MapSet(errorCount, errorKey,
                                IF showUser THEN currentCount + 1 ELSE currentCount)
        /\ last' = Occurrence(errorKey, "handleError", showUser,
                              showUser /\ currentCount < maxErrorsPerType)
        /\ timers' = setTimeout(errorKey, ResetAfterMs)
        /\ ordinal' = MapSet(ordinal, errorKey, MapGet(ordinal, errorKey) + 1)
        /\ notified' = MapSet(notified, errorKey, MapGet(notified, errorKey) +
                  (IF showUser /\ currentCount < maxErrorsPerType THEN 1 ELSE 0))
        /\ age' = IF errorKey \in DOMAIN errorCount THEN age
                  ELSE MapSet(age, errorKey, 0)

(***************************************************************************)
(* ErrorHandler.handleError                                                *)
(***************************************************************************)
handleError(error, context, showUser) ==
    LET errorKey == getErrorKey(error, context)
        currentCount == MapGet(errorCount, errorKey)
    IN  /\ errorCount' = MapSet(errorCount, errorKey, currentCount + 1)
        /\ last' = Occurrence(errorKey, "handleError", showUser,
                              showUser /\ currentCount < maxErrorsPerType)
        /\ timers' = setTimeout(errorKey, ResetAfterMs)
        /\ ordinal' = MapSet(ordinal, errorKey, MapGet(ordinal, errorKey) + 1)
        /\ notified' = MapSet(notified, errorKey, MapGet(notified, errorKey) +
                  (IF showUser /\ currentCount < maxErrorsPerType THEN 1 ELSE 0))
        /\ age' = IF errorKey \in DOMAIN errorCount THEN age
                  ELSE MapSet(age, errorKey, 0)

(***************************************************************************)
(* handleNetworkError, handleAuthenticationError, handleRateLimitError:    *)
(* the message is shown, the table is not touched.                         *)
(***************************************************************************)
handleSpecificError(error, context, handler) ==
    /\ last' = Occurrence(getErrorKey(error, context), handler, TRUE, TRUE)
    /\ UNCHANGED << errorCount, timers, ordinal, notified, age >>

(***************************************************************************)
(* ErrorHandler.handleApiError                                             *)
(***************************************************************************)
ErrorHandler_handleApiError(error, context) ==
    LET handler == apiErrorHandler(error)
    IN  CASE handler = "TypeError" ->
                /\ last' = Occurrence(<< >>, "TypeError", FALSE, FALSE)
                /\ UNCHANGED << errorCount, timers, ordinal, notified, age >>
          [] handler = "handleError" -> handleError(error, context, TRUE)
          [] OTHER -> handleSpecificError(error, context, handler)

\* the failures the callers of the ErrorHandler report in this model
ReportedErrors == { JsError(HttpFailure(503)) }

ReportedApiErrors ==
    { JsError(HttpFailure(503)), JsError(ConnectionRefused),
      JsError(HttpFailure(401)), JsError(HttpFailure(429)) }

ThrottleKeys ==
    { getErrorKey(error, Context) : error \in ReportedErrors \cup ReportedApiErrors }

WithinCaps(error) ==
    LET errorKey == getErrorKey(error, Context)
    IN  /\ MapGet(errorCount, errorKey) < MaxOccurrences
        /\ PendingCount(errorKey) < MaxTimers

ReportError(error, showUser) ==
    /\ WithinCaps(error)
    /\ handleError(error, Context, showUser)
    /\ UNCHANGED << configuration, clientVars, pureVars >>

ReportApiError(error) ==
    /\ WithinCaps(error)
    /\ ErrorHandler_handleApiError(error, Context)
    /\ UNCHANGED << configuration, clientVars, pureVars >>

\* a callback that is due runs: errorCount.delete(k)
TimerFires(k) ==
    /\ k \in DOMAIN timers
    /\ timers[k][0] > 0
    /\ LET left == [timers[k] EXCEPT ![0] = @ - 1]
       IN  timers' = IF left = NoTimers THEN MapDelete(timers, k)
                     ELSE MapSet(timers, k, left)
    /\ errorCount' = MapDelete(errorCount, k)
    /\ ordinal' = MapDelete(ordinal, k)
    /\ notified' = MapDelete(notified, k)
    /\ age' = MapDelete(age, k)
    /\ last' = NoOccurrence
    /\ UNCHANGED << configuration, clientVars, pureVars >>

\* TickMs pass, once no callback is due
ClockTick ==
    /\ \A k \in DOMAIN timers : timers[k][0] = 0
    /\ timers' = [k \in DOMAIN timers |->
                    [d \in Slots |-> IF d < TicksPerLifetime
                                     THEN timers[k][d + 1] ELSE 0]]
    /\ age' = [k \in DOMAIN age |-> Min(age[k] + 1, TicksPerLifetime)]
    /\ last' = NoOccurrence
    /\ UNCHANGED << errorCount, ordinal, notified >>
    /\ UNCHANGED << configuration, clientVars, pureVars >>

ThrottleInit ==
    /\ configuration = DefaultConfiguration
    /\ ClientIdle
    /\ HandlerIdle
    /\ PureIdle

ThrottleNext ==
    \/ \E error \in ReportedErrors, showUser \in BOOLEAN : ReportError(error, showUser)
    \/ \E error \in ReportedApiErrors : ReportApiError(error)
    \/ \E k \in ThrottleKeys : TimerFires(k)
    \/ ClockTick

ThrottleSpec == ThrottleInit /\ [][ThrottleNext]_vars

(***************************************************************************)
(* The public operations of the DeepSeekClient, one invocation from its    *)
(* start to its end.  The content of a choice is a sequence of characters. *)
(***************************************************************************)
\* String.prototype.split for a separator of one character
RECURSIVE split(_, _)
split(s, sep) ==
    IF \A i \in 1..Len(s) : s[i] # sep
    THEN << s >>
    ELSE LET i == CHOOSE i \in 1..Len(s) :
                      s[i] = sep /\ \A j \in 1..(i - 1) : s[j] # sep
         IN  << SubSeq(s, 1, i - 1) >> \o split(SubSeq(s, i + 1, Len(s)), sep)

mapTrim(lines) == [i \in 1..Len(lines) |-> trim(lines[i])]

slice(lines, from, to) == SubSeq(lines, from + 1, Min(to, Len(lines)))

\* !response.choices || response.choices.length === 0
NoChoices(response) == ~response.present \/ Len(response.choices) = 0

\* the first 5 lines are taken before the empty ones are dropped
parseCompletionResponseSliceFirst(response) ==
    IF NoChoices(response) THEN << >>
    ELSE SelectSeq(mapTrim(slice(split(response.choices[1], "\n"), 0, 5)),
                   LAMBDA line : Len(line) > 0)

parseCompletionResponse(response) ==
    IF NoChoices(response) THEN << >>
    ELSE slice(SelectSeq(mapTrim(split(response.choices[1], "\n")),
                         LAMBDA line : Len(line) > 0),
               0, 5)

NoExplanation == <<"No explanation available.">>

NoRefactoring == <<"No refactoring suggestions available.">>

\* the content of the last choice, not of the first
parseExplanationResponseLastChoice(response) ==
    IF NoChoices(response) THEN NoExplanation
    ELSE trim(response.choices[Len(response.choices)])

parseExplanationResponse(response) ==
    IF NoChoices(response) THEN NoExplanation ELSE trim(response.choices[1])

parseRefactorResponse(response) ==
    IF NoChoices(response) THEN NoRefactoring ELSE trim(response.choices[1])

\* every operation sends the configured maxTokens
deepseekRequestUncapped(operation, config) ==
    IF operation = "testConnection"
    THEN [model |-> config.model, max_tokens |-> 10, temperature |-> 0]
    ELSE [model |-> config.model, max_tokens |-> config.maxTokens,
          temperature |-> config.temperature]

\* the request an operation builds from the configuration (messages left out)
deepseekRequest(operation, config) ==
    CASE operation = "generateCompletion" ->
            [model |-> config.model, max_tokens |-> Min(config.maxTokens, 1024),
             temperature |-> config.temperature]
      [] operation \in {"explainCode", "refactorCode"} ->
            [model |-> config.model, max_tokens |-> config.maxTokens,
             temperature |-> config.temperature]
      [] operation = "testConnection" ->
            [model |-> config.model, max_tokens |-> 10, temperature |-> 0]

\* the rest of the try block once makeRequest has resolved
Returned(value) == [state |-> "returned", value |-> value]

Thrown(error) == [state |-> "thrown", value |-> error]

afterResolve(operation, response) ==
    CASE operation = "generateCompletion" -> Returned(parseCompletionResponse(response))
      [] operation = "explainCode" -> Returned(parseExplanationResponse(response))
      [] operation = "refactorCode" -> Returned(parseRefactorResponse(response))
      [] operation = "testConnection" -> Returned(TRUE)

\* every catch block rethrows what it caught
afterRejectRethrows(operation, error) == Thrown(error)

\* the catch block once makeRequest has rejected with error
afterReject(operation, error) ==
    CASE operation = "generateCompletion" ->
            Thrown(NewError(<<"Failed", "to", "generate", "code", "completion">>))
      [] operation = "explainCode" ->
            Thrown(NewError(<<"Failed", "to", "explain", "code">>))
      [] operation = "refactorCode" ->
            Thrown(NewError(<<"Failed", "to", "refactor", "code">>))
      [] operation = "testConnection" -> Returned(FALSE)

\* the content "from", newline, "from + 1", ..., "to"
RECURSIVE Numbered(_, _)
Numbered(from, to) ==
    IF from > to THEN << >>
    ELSE << ToString(from) >>
         \o (IF from < to THEN <<"\n">> \o Numbered(from + 1, to) ELSE << >>)

Contents ==
    { << >>, <<" ">>, <<"\n", "\n">>, <<"x">>,
      <<"a", "\n", "b", "\n", "\n", "c">>,
      <<" ", "a", " ", "\n", "\t", "b", "\n">>,
      Numbered(1, MaxLines),
      <<"\n", " ", "\n">> \o Numbered(1, MaxLines - 1),
      NoExplanation }

Responses ==
    { [present |-> FALSE, choices |-> << >>], [present |-> TRUE, choices |-> << >>] }
    \cup { [present |-> TRUE, choices |-> << c >>] : c \in Contents }
    \cup { [present |-> TRUE, choices |-> << c, d >>] : c, d \in Contents }

OrchestratorSettings ==
    { [apiKey |-> KeyA, model |-> m, maxTokens |-> t, temperature |-> d] :
        m \in {"deepseek-coder", "deepseek-chat"},
        t \in {-1, 100, 1023, 1024, 1025, 2048, 8192},
        d \in {0, 1, 20} }

\* a public operation up to its await of makeRequest
Invoke(operation) ==
    /\ invocation = << >>
    /\ invocation' = << [operation |-> operation,
                         request |-> deepseekRequest(operation, getConfiguration),
                         calls |-> 1,
                         call |-> "pending",
                         response |-> [present |-> FALSE, choices |-> << >>],
                         state |-> "pending",
                         cause |-> NoError,
                         error |-> NoError,
                         value |-> << >>] >>
    /\ UNCHANGED << configuration, clientVars, handlerVars, validation, caught,
                    handling, activation >>

\* makeRequest resolves with the response of the attempt that succeeded
CallResolves(response) ==
    /\ invocation # << >>
    /\ invocation[1].state = "pending"
    /\ LET end == afterResolve(invocation[1].operation, response)
       IN  invocation' = << [invocation[1] EXCEPT !.call = "resolved",
                                                  !.response = response,
                                                  !.state = end.state,
                                                  !.value = end.value] >>
    /\ UNCHANGED << configuration, clientVars, handlerVars, validation, caught,
                    handling, activation >>

\* makeRequest rejects: handleRequestError rethrows the error the response
\* interceptor made of the failure of the last attempt
CallRejects(failure) ==
    /\ invocation # << >>
    /\ invocation[1].state = "pending"
    /\ LET error == handleApiError(failure)
           end == afterReject(invocation[1].operation, error)
       IN  invocation' = << [invocation[1] EXCEPT !.call = "rejected",
                                                  !.state = end.state,
                                                  !.value = end.value,
                                                  !.cause = failure,
                                                  !.error = error] >>
    /\ UNCHANGED << configuration, clientVars, handlerVars, validation, caught,
                    handling, activation >>

OrchestratorInit ==
    /\ configuration \in OrchestratorSettings
    /\ ClientIdle
    /\ HandlerIdle
    /\ PureIdle

OrchestratorNext ==
    \/ \E operation \in Operations : Invoke(operation)
    \/ \E response \in Responses : CallResolves(response)
    \/ \E failure \in Raised : CallRejects(failure)

OrchestratorSpec == OrchestratorInit /\ [][OrchestratorNext]_vars

(***************************************************************************)
(* ActivationSpec: activate() of the extension for any settings.  The      *)
(* services are constructed, validateConfiguration of the extension runs   *)
(* to its end, then the activation message is shown.                       *)
(***************************************************************************)
\* the boolean a value stands for in a condition
ToBoolean(value) ==
    CASE value.type \in {"object", "Error"} -> TRUE
      [] value.type = "string" -> value.text # << >>
      [] OTHER -> FALSE

\* validateConfiguration of the extension: the awaited result of the
\* ConfigurationManager is the value the condition tests
ActivateValidates ==
    /\ activation = << >>
    /\ LET isValid == JsObject(validateConfiguration(getConfiguration))
           prompted == ~ToBoolean(isValid)
       IN  /\ validation' = << isValid.fields >>
           /\ activation' = << [prompted |-> prompted, active |-> FALSE] >>
    /\ UNCHANGED << configuration, clientVars, handlerVars, caught, handling,
                    invocation >>

\* showInformationMessage('AI Assistant is now active!')
ActivateCompletes ==
    /\ activation # << >>
    /\ ~activation[1].active
    /\ activation' = << [activation[1] EXCEPT !.active = TRUE] >>
    /\ UNCHANGED << configuration, clientVars, handlerVars, validation, caught,
                    handling, invocation >>

ActivationInit ==
    /\ configuration \in Settings
    /\ ClientIdle
    /\ HandlerIdle
    /\ PureIdle

ActivationNext ==
    \/ ActivateValidates
    \/ ActivateCompletes

ActivationSpec == ActivationInit /\ [][ActivationNext]_vars

(***************************************************************************)
(* Classification of a failure, as the claims name it.                     *)
(***************************************************************************)
IsServerFault(error) == error.response >= 500

IsClientFault(error) ==
    /\ error.response >= 400 /\ error.response < 500
    /\ ~isAuthenticationError(error) /\ ~isRateLimitError(error)

IsUnknown(error) == error.response = NoResponse /\ ~isNetworkError(error)

IsTransient(error) ==
    isNetworkError(error) \/ IsServerFault(error) \/ isRateLimitError(error)

\* call c has a request on the wire now and had none before this step
StartsAttempt(c) == pc[c] # "Attempting" /\ pc'[c] = "Attempting"

\* the attempt of call c ends in this step
EndsAttempt(c) == pc[c] = "Attempting" /\ pc'[c] # "Attempting"

(***************************************************************************)
(* C1: one logical call makes at most MAX_RETRIES + 1 = 4 network          *)
(* attempts.                                                               *)
(***************************************************************************)
C1_AtMostFourAttempts == \A c \in AllCalls : attempts[c] <= MAX_RETRIES + 1

(***************************************************************************)
(* C2: once an attempt of a call has failed with an Authentication or a    *)
(* ClientFault failure the call is Failed: it is not retried and no        *)
(* backoff delay is set for it.                                            *)
(***************************************************************************)
C2_NoRetryOfAuthenticationOrClientFault ==
    \A c \in AllCalls :
        ( /\ lastFailure.call = c
          /\ isAuthenticationError(lastFailure.error) \/ IsClientFault(lastFailure.error) )
        => pc[c] = "Failed" /\ delay[c] = 0

(***************************************************************************)
(* C3: no operation puts a request on the wire while the configuration     *)
(* validates with isValid = FALSE.                                         *)
(***************************************************************************)
C3_NoRequestWhileInvalid ==
    [][ \A c \in AllCalls :
            StartsAttempt(c) => validateConfiguration(configuration).isValid ]_vars

(***************************************************************************)
(* C4: every logical call with an attempt on the wire eventually is        *)
(* Succeeded or Failed, whatever the attempts answer.                      *)
(***************************************************************************)
C4_EveryCallEnds ==
    \A c \in AllCalls :
        (pc[c] = "Attempting") ~> (pc[c] \in {"Succeeded", "Failed"})

(***************************************************************************)
(* C5: the backoff delay set after the failed attempt number n (counted    *)
(* from 0) of a call is 2^n seconds: 1 s, 2 s, 4 s.                        *)
(***************************************************************************)
C5_DelayDoubles ==
    \A c \in AllCalls :
        (pc[c] = "Retrying" /\ attempts[c] <= MAX_RETRIES)
        => delay[c] = (2 ^ (attempts[c] - 1)) * 1000

(***************************************************************************)
(* C6: whenever no logical call is in flight retryCount holds no entry.    *)
(***************************************************************************)
C6_TableEmptyAtRest ==
    (\A c \in AllCalls : pc[c] \in {"Idle", "Succeeded", "Failed"})
    => (DOMAIN retryCount = {} /\ stale = 0)

(***************************************************************************)
(* C7: the retry count a call in flight will read is not changed by the    *)
(* end of an attempt of another call.                                      *)
(***************************************************************************)
C7_NoSharedEntry ==
    [][ \A c, d \in AllCalls :
            ( /\ c # d
              /\ pc[c] = "Attempting" /\ pc'[c] = "Attempting"
              /\ EndsAttempt(d) )
            => MapGet(retryCount', requestId'[c]) = MapGet(retryCount, requestId[c]) ]_vars

(***************************************************************************)
(* C8: every attempt, the first and each retry, goes out with the apiKey   *)
(* the ConfigurationManager holds when the attempt starts.                 *)
(***************************************************************************)
C8_AttemptCarriesCurrentKey ==
    [][ \A c \in AllCalls :
            StartsAttempt(c) => sentKey'[c] = configuration.apiKey ]_vars

\* a retry on the wire with a key other than the one configured at call start
C8_Witness ==
    \E c \in AllCalls :
        /\ pc[c] = "Attempting"
        /\ attempts[c] >= 2
        /\ sentKey[c] # startKey[c]
        /\ sentKey[c] = configuration.apiKey

(***************************************************************************)
(* C9: once an attempt of a call has failed with an Unknown failure the    *)
(* call is Failed: it is not retried.                                      *)
(***************************************************************************)
C9_NoRetryOfUnknown ==
    \A c \in AllCalls :
        (lastFailure.call = c /\ IsUnknown(lastFailure.error))
        => pc[c] = "Failed" /\ delay[c] = 0

(***************************************************************************)
(* C10: a Network, ServerFault or RateLimit failure of one of the first    *)
(* MAX_RETRIES attempts of a call is not surfaced: the call is not Failed  *)
(* by it, so that a later successful attempt can answer the call.          *)
(***************************************************************************)
C10_TransientFailureNotSurfaced ==
    \A c \in AllCalls :
        ( /\ pc[c] = "Failed"
          /\ lastFailure.call = c
          /\ attempts[c] <= MAX_RETRIES )
        => ~IsTransient(lastFailure.error)

(***************************************************************************)
(* The validator, as the claims read its result.                           *)
(***************************************************************************)
Validated == validation # << >>

OfField(issues, f) == SelectSeq(issues, LAMBDA e : e.field = f)

IsBlank(s) == \A i \in 1..Len(s) : s[i] \in Whitespace

IsWellFormedKey(s) ==
    Len(s) >= 20 /\ s[1] = "s" /\ s[2] = "k" /\ s[3] = "-"

ModelUnknown(config) == config.model # "deepseek-coder" /\ config.model # "deepseek-chat"

TokensOutOfRange(config) == config.maxTokens < 100 \/ config.maxTokens > 8192

TemperatureOutOfRange(config) == config.temperature < 0 \/ config.temperature > 20

Count(b) == IF b THEN 1 ELSE 0

ViolatedRules(config) ==
    Count(IsBlank(config.apiKey) \/ ~IsWellFormedKey(config.apiKey))
    + Count(ModelUnknown(config)) + Count(TokensOutOfRange(config))
    + Count(TemperatureOutOfRange(config)) + Count(config.maxTokens > 4096)

\* C14: the result of validateConfiguration is valid exactly when its errors
\* are empty, its errors all have severity error, its warnings all have
\* severity warning, and so no warning ever makes it invalid.
C14_ValidIffNoErrors ==
    Validated =>
        LET r == validation[1]
        IN  /\ r.isValid <=> (r.errors = << >>)
            /\ \A i \in 1..Len(r.errors) : r.errors[i].severity = "error"
            /\ \A i \in 1..Len(r.warnings) : r.warnings[i].severity = "warning"

\* a configuration that is valid although it draws two warnings
C14_Witness ==
    /\ Validated
    /\ validation[1].isValid
    /\ Len(validation[1].warnings) = 2

\* C15: maxTokens below 100 or above 8192 makes the result invalid with one
\* maxTokens error, 100..8192 gives no maxTokens error, and there is a
\* maxTokens warning exactly above 4096, which by itself changes nothing
\* about isValid.
C15_MaxTokensRules ==
    Validated =>
        LET r == validation[1]
            m == configuration.maxTokens
        IN  /\ (m < 100 \/ m > 8192) =>
                   ~r.isValid /\ Len(OfField(r.errors, "maxTokens")) = 1
            /\ (100 <= m /\ m <= 8192) => OfField(r.errors, "maxTokens") = << >>
            /\ Len(OfField(r.warnings, "maxTokens")) = Count(m > 4096)
            /\ (4096 < m /\ m <= 8192) =>
                   r.isValid =
                     validateConfiguration(
                         [configuration EXCEPT !.maxTokens = 4096]).isValid

\* above 8192: the range error and the performance warning together
C15_Witness ==
    /\ Validated
    /\ configuration.maxTokens = 8193
    /\ Len(OfField(validation[1].errors, "maxTokens")) = 1
    /\ Len(OfField(validation[1].warnings, "maxTokens")) = 1

\* C16: a blank apiKey (empty or whitespace only) draws the one error
\* "API Key is required" and no warning; a non-blank apiKey shorter than
\* 20 characters or without the prefix sk- draws one warning and no error;
\* any other apiKey draws nothing; the default configuration has the error.
C16_ApiKeyRules ==
    Validated =>
        LET r == validation[1]
            k == configuration.apiKey
            E == OfField(r.errors, "apiKey")
            W == OfField(r.warnings, "apiKey")
        IN  /\ IsBlank(k) =>
                   /\ E = << Issue("apiKey", "API Key is required", "error") >>
                   /\ W = << >>
            /\ (~IsBlank(k) /\ ~IsWellFormedKey(k)) => E = << >> /\ Len(W) = 1
            /\ (~IsBlank(k) /\ IsWellFormedKey(k)) => E = << >> /\ W = << >>
            /\ configuration = DefaultConfiguration => Len(E) = 1 /\ ~r.isValid

\* a key of blanks and a tab, validated
C16_Witness ==
    /\ Validated
    /\ configuration.apiKey = <<" ", "\t", " ">>
    /\ Len(OfField(validation[1].errors, "apiKey")) = 1

\* C17: every violated rule contributes its own issue, whatever the other
\* rules say, and a configuration that breaks the four error rules gets the
\* four errors in the order apiKey, model, maxTokens, temperature.
C17_RulesIndependent ==
    Validated =>
        LET r == validation[1]
            c == configuration
        IN  /\ Len(r.errors) + Len(r.warnings) = ViolatedRules(c)
            /\ Len(OfField(r.errors, "model")) = Count(ModelUnknown(c))
            /\ Len(OfField(r.errors, "maxTokens")) = Count(TokensOutOfRange(c))
            /\ Len(OfField(r.errors, "temperature")) = Count(TemperatureOutOfRange(c))
            /\ Len(OfField(r.errors \o r.warnings, "apiKey"))
                 = Count(IsBlank(c.apiKey) \/ ~IsWellFormedKey(c.apiKey))
            /\ (/\ IsBlank(c.apiKey) /\ ModelUnknown(c)
                /\ TokensOutOfRange(c) /\ TemperatureOutOfRange(c)) =>
                   [i \in 1..Len(r.errors) |-> r.errors[i].field]
                     = <<"apiKey", "model", "maxTokens", "temperature">>

\* all four error rules broken at once
C17_Witness ==
    /\ Validated
    /\ IsBlank(configuration.apiKey)
    /\ ModelUnknown(configuration)
    /\ TokensOutOfRange(configuration)
    /\ TemperatureOutOfRange(configuration)
    /\ Len(validation[1].errors) = 4

(***************************************************************************)
(* The classifier and the message extraction, as the claims state them.    *)
(***************************************************************************)
Classification(f) ==
    IF f.response = NoResponse
       /\ (f.code \in {"ECONNREFUSED", "ENOTFOUND", "ENETUNREACH"}
           \/ includes(f.message, "network"))
    THEN "Network"
    ELSE IF f.response \in {401, 403} THEN "Authentication"
    ELSE IF f.response = 429 THEN "RateLimit"
    ELSE IF f.response >= 500 THEN "ServerFault"
    ELSE IF f.response >= 400 THEN "ClientFault"
    ELSE "Unknown"

HandlerOf(class) ==
    CASE class = "Network" -> "handleNetworkError"
      [] class = "Authentication" -> "handleAuthenticationError"
      [] class = "RateLimit" -> "handleRateLimitError"
      [] OTHER -> "handleError"

Classified == handling # << >> /\ handling[1].by = "handleApiError"

Extracted == handling # << >> /\ handling[1].by = "getErrorKey"

\* C18: for every failure axios raises, handleApiError picks the handler of
\* its classification and the client retries it exactly when it is classed
\* Network, ServerFault or RateLimit.
C18_HandlingAgreesWithClassification ==
    (Classified /\ caught.type = "Error" /\ caught.fields \in Raised) =>
        LET class == Classification(caught.fields)
        IN  /\ handling[1].handler = HandlerOf(class)
            /\ handling[1].retry = (class \in {"Network", "ServerFault", "RateLimit"})

\* C19: deciding which handler applies never raises, whatever was caught.
C19_ClassificationTotal ==
    Classified => handling[1].handler # "TypeError"

\* the message by the precedence string, nested API message, message
\* attribute, fallback
ExpectedMessage(value) ==
    IF value.type = "string" THEN value.text
    ELSE IF ~Nullish(value) /\ value.fields.data # << >> THEN value.fields.data
    ELSE IF value.type = "Error" THEN value.fields.message
    ELSE IF ~Nullish(value) /\ value.fields.message # << >> THEN value.fields.message
    ELSE FallbackMessage

\* C20: the message extracted is the string itself, else the nested API
\* message (also for an Error instance and beside a message attribute),
\* else the message attribute, else the fallback; the key is the context,
\* a colon and the first 50 units of that message.
C20_MessagePrecedence ==
    Extracted =>
        LET message == ExpectedMessage(caught)
        IN  /\ handling[1].message = message
            /\ handling[1].key
                 = << Context, ":" >> \o SubSeq(message, 1, Min(50, Len(message)))

(***************************************************************************)
(* The notification throttle.                                              *)
(***************************************************************************)
Handled == last.handler # "none"

\* C11: while one record lives, its count is the number of occurrences
\* handleError has handled for the key, and the occurrence just handled was
\* shown exactly when showUser was set and it was one of the first
\* maxErrorsPerType of the record.
C11_FirstFiveNotified ==
    /\ \A k \in DOMAIN errorCount : errorCount[k] = MapGet(ordinal, k)
    /\ last.handler = "handleError" =>
           (last.shown <=>
               (last.showUser /\ MapGet(ordinal, last.key) <= maxErrorsPerType))

\* the sixth occurrence of a record, asked to be shown and not shown
C11_Witness ==
    /\ last.handler = "handleError"
    /\ last.showUser
    /\ ~last.shown
    /\ MapGet(errorCount, last.key) = maxErrorsPerType + 1
    /\ MapGet(ordinal, last.key) = maxErrorsPerType + 1

\* C12: a record is removed only when it is ResetAfterMs old, and the first
\* occurrence after a removal starts a record with count 1 that may notify.
C12_RemovedFiveMinutesAfterCreation ==
    [][ /\ \A k \in DOMAIN errorCount :
              k \notin DOMAIN errorCount' => age[k] = TicksPerLifetime
        /\ \A k \in DOMAIN errorCount' :
              k \notin DOMAIN errorCount =>
                  errorCount'[k] = 1 /\ (last'.shown <=> last'.showUser) ]_vars

\* C13: whatever handler handleApiError chooses, the occurrence is counted
\* in errorCount and its alert is shown only while the count of its key has
\* not passed maxErrorsPerType.
C13_EveryAlertThrottled ==
    Handled =>
        /\ MapGet(errorCount, last.key) >= 1
        /\ last.shown => MapGet(errorCount, last.key) <= maxErrorsPerType

(***************************************************************************)
(* The public operations, as the claims read one invocation.               *)
(***************************************************************************)
Invoked == invocation # << >>

Resolved == Invoked /\ invocation[1].call = "resolved"

Rejected == Invoked /\ invocation[1].call = "rejected"

Generating == {"generateCompletion", "explainCode", "refactorCode"}

\* C21: when the logical call of generateCompletion, explainCode or
\* refactorCode fails for good, the caller gets the error of that failure
\* with its substituted message, so that failures of different
\* classification arrive as different errors.
C21_CallerGetsOriginatingFailure ==
    (Rejected /\ invocation[1].operation \in Generating) =>
        /\ invocation[1].state = "thrown"
        /\ invocation[1].value = invocation[1].error

InvalidCredentialMessage ==
    <<"Invalid", "API", "key.", "Please", "check", "your", "configuration.">>

RateLimitMessage ==
    <<"Rate", "limit", "exceeded.", "Please", "try", "again", "later.">>

ServerErrorMessage ==
    <<"DeepSeek", "API", "server", "error.", "Please", "try", "again", "later.">>

\* C22: the message put in place of a failure follows its classification:
\* Authentication (401, 403) the invalid-credential message, RateLimit the
\* rate-limit message, ServerFault (every status from 500) the server-error
\* message, every other failure a generic message.
C22_MessageFollowsClassification ==
    Rejected =>
        LET class == Classification(invocation[1].cause)
            message == invocation[1].error.message
        IN  CASE class = "Authentication" -> message = InvalidCredentialMessage
              [] class = "RateLimit" -> message = RateLimitMessage
              [] class = "ServerFault" -> message = ServerErrorMessage
              [] OTHER -> message \notin {InvalidCredentialMessage, RateLimitMessage,
                                          ServerErrorMessage}

\* C23: testConnection asks for 10 tokens at temperature 0, never throws,
\* returns false whenever its logical call fails and true exactly when it
\* succeeds.
C23_TestConnectionNeverThrows ==
    (Invoked /\ invocation[1].operation = "testConnection") =>
        /\ invocation[1].request.max_tokens = 10
        /\ invocation[1].request.temperature = 0
        /\ invocation[1].state # "thrown"
        /\ Rejected => invocation[1].state = "returned" /\ invocation[1].value = FALSE
        /\ Resolved => invocation[1].state = "returned" /\ invocation[1].value = TRUE

\* the probe answered false to a failure with status 401
C23_Witness ==
    /\ Rejected
    /\ invocation[1].operation = "testConnection"
    /\ invocation[1].cause.response = 401
    /\ invocation[1].state = "returned"
    /\ invocation[1].value = FALSE

\* C24: generateCompletion asks for min(maxTokens, 1024) tokens, explainCode
\* and refactorCode for the configured maxTokens, and an invocation makes
\* one logical call.
C24_CompletionTokensCapped ==
    Invoked =>
        LET op == invocation[1].operation
            sent == invocation[1].request.max_tokens
            m == configuration.maxTokens
        IN  /\ op = "generateCompletion" =>
                   /\ sent = (IF m <= 1024 THEN m ELSE 1024)
                   /\ sent <= 1024
                   /\ invocation[1].calls = 1
            /\ op \in {"explainCode", "refactorCode"} => sent = m

\* 2048 configured, 1024 asked for
C24_Witness ==
    /\ Invoked
    /\ invocation[1].operation = "generateCompletion"
    /\ configuration.maxTokens = 2048
    /\ invocation[1].request.max_tokens = 1024

\* the lines of a content, read off the positions of its newlines
NewlinesUpTo(content, i) == Cardinality({j \in 1..i : content[j] = "\n"})

LineStart(content, k) ==
    IF k = 1 THEN 1
    ELSE 1 + (CHOOSE i \in 1..Len(content) :
                 content[i] = "\n" /\ NewlinesUpTo(content, i) = k - 1)

LineEnd(content, k) ==
    IF k = NewlinesUpTo(content, Len(content)) + 1 THEN Len(content)
    ELSE (CHOOSE i \in 1..Len(content) :
             content[i] = "\n" /\ NewlinesUpTo(content, i) = k) - 1

Inked(line) == {i \in 1..Len(line) : line[i] \notin Whitespace}

Stripped(line) ==
    IF Inked(line) = {} THEN << >>
    ELSE SubSeq(line, CHOOSE i \in Inked(line) : \A j \in Inked(line) : i <= j,
                      CHOOSE i \in Inked(line) : \A j \in Inked(line) : i >= j)

StrippedLines(content) ==
    [k \in 1..(NewlinesUpTo(content, Len(content)) + 1) |->
        Stripped(SubSeq(content, LineStart(content, k), LineEnd(content, k)))]

Suggestions(content) ==
    LET kept == SelectSeq(StrippedLines(content), LAMBDA line : line # << >>)
    IN  SubSeq(kept, 1, Min(5, Len(kept)))

\* C25: parseCompletionResponse returns the non-empty trimmed lines of the
\* first choice in their order, at most the first 5 of them, and the empty
\* list when there is no choice.
C25_AtMostFiveTrimmedLines ==
    (Resolved /\ invocation[1].operation = "generateCompletion") =>
        LET response == invocation[1].response
            result == invocation[1].value
        IN  /\ Len(result) <= 5
            /\ \A i \in 1..Len(result) :
                  /\ result[i] # << >>
                  /\ result[i][1] \notin Whitespace
                  /\ result[i][Len(result[i])] \notin Whitespace
            /\ NoChoices(response) => result = << >>
            /\ ~NoChoices(response) => result = Suggestions(response.choices[1])

\* a content of more than 5 non-empty lines after two empty ones, cut to 5
C25_Witness ==
    /\ Resolved
    /\ invocation[1].operation = "generateCompletion"
    /\ invocation[1].response.choices # << >>
    /\ invocation[1].response.choices[1] = <<"\n", " ", "\n">> \o Numbered(1, MaxLines - 1)
    /\ invocation[1].value = << <<"1">>, <<"2">>, <<"3">>, <<"4">>, <<"5">> >>

\* C26: explainCode and refactorCode return the trimmed content of the first
\* choice whatever the later choices are, and their sentinel when there is
\* no choice.
C26_FirstChoiceOrSentinel ==
    (Resolved /\ invocation[1].operation \in {"explainCode", "refactorCode"}) =>
        LET response == invocation[1].response
            result == invocation[1].value
        IN  /\ NoChoices(response) =>
                   result = (IF invocation[1].operation = "explainCode"
                             THEN <<"No explanation available.">>
                             ELSE <<"No refactoring suggestions available.">>)
            /\ ~NoChoices(response) => result = Stripped(response.choices[1])

\* two choices with different contents: the first one is returned
C26_Witness ==
    /\ Resolved
    /\ invocation[1].operation = "explainCode"
    /\ Len(invocation[1].response.choices) = 2
    /\ invocation[1].response.choices[1] = <<" ", "a", " ", "\n", "\t", "b", "\n">>
    /\ invocation[1].response.choices[2] = <<"x">>
    /\ invocation[1].value = <<"a", " ", "\n", "\t", "b">>

\* C27: a record is never removed before it is ResetAfterMs old, whatever
\* occurrences and timer firings came before, so the notifications shown
\* for a key while its record lives never pass maxErrorsPerType within
\* ResetAfterMs of the record's creation.
C27_NeverRemovedEarly ==
    [][ \A k \in DOMAIN errorCount :
            k \notin DOMAIN errorCount' => age[k] >= TicksPerLifetime ]_vars

\* C29: handleError shows nothing when showUser is false and counts the
\* occurrence all the same; once maxErrorsPerType occurrences of a key were
\* handled in the record's lifetime, shown or not, a further occurrence
\* with showUser = true is not shown.
C29_SilentOccurrencesCount ==
    last.handler = "handleError" =>
        /\ ~last.showUser => ~last.shown
        /\ MapGet(errorCount, last.key) >= 1
        /\ (last.showUser /\ MapGet(ordinal, last.key) > maxErrorsPerType) => ~last.shown
        /\ MapGet(notified, last.key) <= maxErrorsPerType

\* five occurrences with showUser = false, none shown, then one with
\* showUser = true that is not shown either
C29_Witness ==
    /\ last.handler = "handleError"
    /\ last.showUser
    /\ ~last.shown
    /\ MapGet(ordinal, last.key) = maxErrorsPerType + 1
    /\ MapGet(notified, last.key) = 0

\* C28: a call has a request on the wire only while it is attempting, one
\* at a time; an attempt of a call starts either as the first one of the
\* call or after the previous one has failed and the backoff set by
\* handleRequestError has run down, never while a request of the call is
\* on the wire.
C28_RetryAfterBackoffOnly ==
    [][ \A c \in AllCalls :
            /\ (sentKey[c] # NoKey) <=> (pc[c] = "Attempting")
            /\ StartsAttempt(c) =>
                   /\ sentKey[c] = NoKey
                   /\ \/ pc[c] = "Idle" /\ attempts[c] = 0
                      \/ /\ pc[c] = "Retrying"
                         /\ attempts[c] >= 1
                         /\ delay[c] >= 1000
                         /\ timer[c] = 0 ]_vars

\* a retry that has just been sent, its backoff run down and cleared
C28_Witness ==
    \E c \in AllCalls :
        /\ pc[c] = "Attempting"
        /\ attempts[c] >= 2
        /\ requestId[c] = 0
        /\ timer[c] = 0
        /\ delay[c] = 0

\* C30: the activation shows the 'configuration is incomplete' prompt
\* exactly when the validation result has isValid = false, and the
\* extension is reported active only after that.
C30_PromptExactlyWhenInvalid ==
    activation # << >> =>
        /\ activation[1].prompted <=> ~validation[1].isValid
        /\ activation[1].active => (activation[1].prompted <=> ~validation[1].isValid)


=============================================================================
